---- MODULE Spec2Model ----
(***************************************************************************)
(* Contact-form backend (src/app.py): a Quart application with a process-  *)
(* wide aiomysql pool, a startup hook that creates the contacts table, and *)
(* two request handlers, create_contact (POST /api/contact) and            *)
(* get_contacts (GET /api/contacts).                                       *)
(*                                                                         *)
(* Handlers are coroutines: a step of the model is the code a handler runs *)
(* between two suspension points (await request.get_json(), await          *)
(* pool.acquire(), await cursor.execute()).                                *)
(*                                                                         *)
(* Text is a sequence of one-character strings, so that str.strip(),       *)
(* str.lower() and the "in" operator are computed and not assumed.         *)
(* A JSON value is a record [t, v]: t is its type, v its content.          *)
(*                                                                         *)
(* The database server and the aiomysql pool are the environment: a        *)
(* statement or the opening of a connection succeeds or raises, the pool   *)
(* hands out at most maxsize connections. The after_serving hook           *)
(* (cleanup) is not part of the model.                                     *)
(***************************************************************************)
EXTENDS Integers, Sequences, FiniteSets, TLC

\* ------------------------------------------------------------------ bounds
\* Number of request handlers that can be in flight at once.
NumReq == 2
\* Number of rows the table may come to hold (create requests accepted).
MaxRows == 3
\* The pool's maxsize (init_db_pool).
maxsize == 20

Procs == 1..NumReq
\* Values CURRENT_TIMESTAMP can take (one-second resolution: ties happen).
Times == 1..MaxRows

\* ------------------------------------------------------- Python text model
Whitespace == {" ", "\t", "\n"}

RECURSIVE lstrip(_)
lstrip(s) == IF s # <<>> /\ Head(s) \in Whitespace THEN lstrip(Tail(s)) ELSE s

RECURSIVE rstrip(_)
rstrip(s) ==
  IF s # <<>> /\ s[Len(s)] \in Whitespace
  THEN rstrip(SubSeq(s, 1, Len(s) - 1))
  ELSE s

\* Variant of strip that leaves the text as submitted.
stripIdentity(s) == s

\* str.strip(): both ends, whitespace only.
strip(s) == rstrip(lstrip(s))

LowerChar(c) ==
  CASE c = "A" -> "a"
    [] c = "B" -> "b"
    [] c = "H" -> "h"
    [] c = "J" -> "j"
    [] OTHER -> c

\* str.lower()
lower(s) == [i \in 1..Len(s) |-> LowerChar(s[i])]

\* c in s, for a one-character c (str) or an element c (list)
Contains(c, s) == \E i \in 1..Len(s) : s[i] = c

\* ------------------------------------------------------------ JSON values
JStr(s) == [t |-> "str", v |-> s]
JNum(d) == [t |-> "num", v |-> d]
JList(l) == [t |-> "list", v |-> l]
JNull == [t |-> "null", v |-> <<>>]
\* A key the object does not have.
Absent == [t |-> "absent", v |-> <<>>]

\* Python truth value of a parsed JSON value.
Truthy(x) ==
  CASE x.t = "str" -> x.v # <<>>
    [] x.t = "num" -> x.v # <<"0">>
    [] x.t = "list" -> x.v # <<>>
    [] OTHER -> FALSE

\* dict.get(key, default)
Get(data, key, default) == IF data[key].t = "absent" THEN default ELSE data[key]

\* --------------------------------------------------------- request bodies
\* What the client sent as the body of POST /api/contact:
\*   kind "object"    a JSON object with (some of) the four keys
\*   kind "array"     valid JSON that is not an object
\*   kind "nobody"    no JSON body (get_json returns None)
\*   kind "malformed" bytes that are not JSON (get_json raises BadRequest)
Obj(n, e, p, m) ==
  [kind |-> "object", name |-> n, email |-> e, phone |-> p, message |-> m]
NonObj(k) ==
  [kind |-> k, name |-> Absent, email |-> Absent, phone |-> Absent,
   message |-> Absent]

NameVals ==
  { Absent, JStr(<<>>), JStr(<<" ">>), JStr(<<"J", "o">>), JNum(<<"5">>) }
EmailVals ==
  { Absent, JStr(<<>>), JStr(<<" ", "A", "@", "B", ".", "c", " ">>),
    JStr(<<"a", "@", "b">>), JStr(<<"a", ".", "b">>), JStr(<<"a", "b">>),
    JNum(<<"5">>), JList(<<"@", ".">>) }
PhoneVals ==
  { Absent, JNull, JStr(<<>>), JStr(<<" ", "1", " ">>), JNum(<<"5">>) }
MessageVals ==
  { Absent, JNull, JStr(<<" ">>), JStr(<<"H", "i", "\n">>), JNum(<<"0">>) }

Bodies ==
  { Obj(n, e, p, m) : n \in NameVals, e \in EmailVals, p \in PhoneVals,
                      m \in MessageVals }
  \cup { NonObj("array"), NonObj("nobody"), NonObj("malformed") }

GoodName == JStr(<<"J", "o">>)
GoodEmail == JStr(<<" ", "A", "@", "B", ".", "c", " ">>)
GoodMessage == JStr(<<"H", "i", "\n">>)

\* The bodies that concurrent clients send: one that is accepted and one
\* that raises after the connection is acquired.
ConcBodies ==
  { Obj(GoodName, GoodEmail, JStr(<<>>), GoodMessage),
    Obj(GoodName, GoodEmail, JNull, GoodMessage) }

\* -------------------------------------------------- create_contact, pure
\* Outcome of a piece of straight-line code: it falls through ("pass"), it
\* returns a response ("return"), or it raises ("raise").
Pass == [k |-> "pass", status |-> 0, msg |-> ""]
Return(status, msg) == [k |-> "return", status |-> status, msg |-> msg]
Raise(exc) == [k |-> "raise", status |-> 0, msg |-> exc]

\* Variant of required_fields that tests the email first.
EmailFirst == <<"email", "name", "message">>

\* required_fields = ['name', 'email', 'message']
required_fields == <<"name", "email", "message">>

\* for field in required_fields: if not data.get(field): return ... 400
\* The index of the first field the loop stops at, 0 when it runs through.
RECURSIVE FirstRejected(_, _)
FirstRejected(data, i) ==
  IF i > Len(required_fields) THEN 0
  ELSE IF ~Truthy(Get(data, required_fields[i], JNull)) THEN i
  ELSE FirstRejected(data, i + 1)

\* Variant of EmailRejected with "and" for "or".
EmailRejectedAnd(email) == ~Contains("@", email.v) /\ ~Contains(".", email.v)

\* '@' not in email or '.' not in email
EmailRejected(email) == ~Contains("@", email.v) \/ ~Contains(".", email.v)

\* Lines 92-103: from the parsed body to the end of validation.
Validate(body) ==
  IF body.kind = "malformed" THEN Raise("BadRequest")
  ELSE IF body.kind # "object" THEN Raise("AttributeError")
  ELSE LET i == FirstRejected(body, 1)
           email == Get(body, "email", JNull)
       IN  IF i # 0 THEN Return(400, required_fields[i] \o " is required")
           ELSE IF email.t \notin {"str", "list"} THEN Raise("TypeError")
           ELSE IF EmailRejected(email)
                THEN Return(400, "Invalid email format")
           ELSE Pass

\* data.get('phone', '')
PhoneArg(data) == Get(data, "phone", JStr(<<>>))

\* Lines 113-118: the argument tuple of cursor.execute. Evaluating it calls
\* .strip() on each value, which raises AttributeError on a non-string.
ArgsRaise(data) ==
  \E x \in { Get(data, "name", JNull), Get(data, "email", JNull),
             PhoneArg(data), Get(data, "message", JNull) } : x.t # "str"

InsertArgs(data) ==
  [ name |-> strip(Get(data, "name", JNull).v),
    email |-> lower(strip(Get(data, "email", JNull).v)),
    phone |-> strip(PhoneArg(data).v),
    message |-> strip(Get(data, "message", JNull).v) ]

\* ------------------------------------------------------------------ state
VARIABLES
  boot,     \* startup(): "init", "table_acquire", "table_execute", "serving", "failed"
  table,    \* TRUE once the contacts table exists
  rows,     \* the contacts table, in insertion order
  used,     \* connections checked out of the pool by startup and the handlers
  others,   \* connections checked out by further get_contacts requests
  op,       \* per handler: "none", "create", "list"
  body,     \* per handler: the request body
  pc,       \* per handler: "idle", "parse", "acquire", "execute", "finish", "done", "escaped"
  cur,      \* per handler: what its cursor holds after execute
  resp,     \* per handler: the response sent
  base,     \* per handler: number of rows committed when the request arrived
  acq,      \* per handler: calls of pool.acquire() that returned or raised
  stmts,    \* per handler: statements this request sent
  exc,      \* per handler: the exception raised while handling it, or "none"
  issued,   \* the ids sent in 201 responses
  n201      \* number of 201 responses sent

vars ==
  << boot, table, rows, used, others, op, body, pc, cur, resp, base, acq,
     stmts, exc, issued, n201 >>

NoResp == [status |-> 0, error |-> "", id |-> 0, contacts |-> <<>>, count |-> 0]
NoCur == [lastrowid |-> 0, fetched |-> <<>>]

\* jsonify({...}), status
ErrorResponse(status, msg) == [NoResp EXCEPT !.status = status, !.error = msg]
CreatedResponse(contact_id) == [NoResp EXCEPT !.status = 201, !.id = contact_id]
ListResponse(contacts) ==
  [NoResp EXCEPT !.status = 200, !.contacts = contacts, !.count = Len(contacts)]

Init ==
  /\ boot = "init"
  /\ table \in BOOLEAN
  /\ rows = <<>>
  /\ used = 0
  /\ others = 0
  /\ op = [p \in Procs |-> "none"]
  /\ body = [p \in Procs |-> NonObj("nobody")]
  /\ pc = [p \in Procs |-> "idle"]
  /\ cur = [p \in Procs |-> NoCur]
  /\ resp = [p \in Procs |-> NoResp]
  /\ base = [p \in Procs |-> 0]
  /\ acq = [p \in Procs |-> 0]
  /\ stmts = [p \in Procs |-> 0]
  /\ exc = [p \in Procs |-> "none"]
  /\ issued = {}
  /\ n201 = 0

\* ------------------------------------------------------------------- pool
CheckedOut == used + others

\* pool.acquire(): suspends the caller while maxsize connections are out.
CanAcquire == CheckedOut < maxsize

\* Variant of ReleaseOnError: the connection stays out when the block is
\* left by an exception (acquire and release without try/finally).
KeepOnError(u) == u

\* async with pool.acquire() as conn: leaving the block releases conn,
\* whether it is left normally or by an exception.
ReleaseOnError(u) == u - 1
ReleaseOnExit(u) == u - 1

\* ---------------------------------------------------------------- startup
hreq == << op, body, pc, cur, resp, base, acq, stmts, exc, issued, n201 >>

\* init_db_pool: aiomysql.create_pool(...)
CreatePool ==
  /\ boot = "init"
  /\ \E ok \in BOOLEAN : boot' = IF ok THEN "table_acquire" ELSE "failed"
  /\ UNCHANGED << table, rows, used, others, hreq >>

\* create_table: async with pool.acquire() as conn. Opening the connection
\* may fail; init_db_pool re-raises.
TableAcquire ==
  /\ boot = "table_acquire"
  /\ CanAcquire
  /\ \E ok \in BOOLEAN :
       IF ok
       THEN used' = used + 1 /\ boot' = "table_execute"
       ELSE used' = used /\ boot' = "failed"
  /\ UNCHANGED << table, rows, others, hreq >>

\* create_table: CREATE TABLE IF NOT EXISTS; an error is re-raised by
\* init_db_pool and the application does not start serving.
TableExecute ==
  /\ boot = "table_execute"
  /\ \E ok \in BOOLEAN :
       IF ok
       THEN /\ table' = TRUE
            /\ used' = ReleaseOnExit(used)
            /\ boot' = "serving"
       ELSE /\ table' = table
            /\ used' = ReleaseOnError(used)
            /\ boot' = "failed"
  /\ UNCHANGED << rows, others, hreq >>

\* --------------------------------------------------------------- handlers
\* Variant of Catches: except aiomysql.Error only.
CatchesDatabaseOnly(e) == e = "DatabaseError"

\* except Exception as e: every exception a handler body raises is an
\* Exception (BadRequest, AttributeError, TypeError, aiomysql errors).
Catches(e) == TRUE

\* Variant of AfterReturn: the response is built and the handler goes on.
FallThrough == "acquire"

\* return jsonify(...), 400 ends the handler.
AfterReturn == "done"

\* The handler body raised e: lines 128-130 and 153-155.
OnRaise(p, e) ==
  /\ exc' = [exc EXCEPT ![p] = e]
  /\ IF Catches(e)
     THEN /\ resp' = [resp EXCEPT ![p] = ErrorResponse(500, "Internal server error")]
          /\ pc' = [pc EXCEPT ![p] = "done"]
     ELSE /\ resp' = resp
          /\ pc' = [pc EXCEPT ![p] = "escaped"]

\* Create requests that may still insert a row.
Inserting == { p \in Procs : op[p] = "create" /\ pc[p] \in {"parse", "acquire", "execute"} }

Fresh(p, kind, b, at) ==
  /\ op' = [op EXCEPT ![p] = kind]
  /\ body' = [body EXCEPT ![p] = b]
  /\ pc' = [pc EXCEPT ![p] = at]
  /\ cur' = [cur EXCEPT ![p] = NoCur]
  /\ resp' = [resp EXCEPT ![p] = NoResp]
  /\ base' = [base EXCEPT ![p] = Len(rows)]
  /\ acq' = [acq EXCEPT ![p] = 0]
  /\ stmts' = [stmts EXCEPT ![p] = 0]
  /\ exc' = [exc EXCEPT ![p] = "none"]

\* POST /api/contact arrives; the handler suspends in request.get_json().
ArriveCreate(p, b) ==
  /\ boot = "serving"
  /\ pc[p] \in {"idle", "done"}
  /\ Len(rows) + Cardinality(Inserting) < MaxRows
  /\ Fresh(p, "create", b, "parse")
  /\ UNCHANGED << boot, table, rows, used, others, issued, n201 >>

\* GET /api/contacts arrives; the handler suspends in pool.acquire().
ArriveList(p) ==
  /\ boot = "serving"
  /\ pc[p] \in {"idle", "done"}
  /\ Fresh(p, "list", NonObj("nobody"), "acquire")
  /\ UNCHANGED << boot, table, rows, used, others, issued, n201 >>

\* create_contact, lines 92-103: the body is parsed and validated.
ParseValidate(p) ==
  /\ pc[p] = "parse"
  /\ LET out == Validate(body[p])
     IN  CASE out.k = "raise" -> OnRaise(p, out.msg)
           [] out.k = "return" ->
                /\ resp' = [resp EXCEPT ![p] = ErrorResponse(out.status, out.msg)]
                /\ pc' = [pc EXCEPT ![p] = AfterReturn]
                /\ exc' = exc
           [] OTHER ->
                /\ pc' = [pc EXCEPT ![p] = "acquire"]
                /\ UNCHANGED << resp, exc >>
  /\ UNCHANGED << boot, table, rows, used, others, op, body, cur, base, acq,
                  stmts, issued, n201 >>

\* create_contact, lines 111-118: the connection is acquired (or opening
\* it raises), the cursor opened and the arguments of execute evaluated.
AcquireCreate(p) ==
  /\ pc[p] = "acquire" /\ op[p] = "create"
  /\ CanAcquire
  /\ acq' = [acq EXCEPT ![p] = @ + 1]
  /\ \E ok \in BOOLEAN :
       IF ~ok
       THEN /\ used' = used
            /\ OnRaise(p, "DatabaseError")
       ELSE IF ArgsRaise(body[p])
       THEN /\ used' = ReleaseOnError(used + 1)
            /\ OnRaise(p, "AttributeError")
       ELSE /\ used' = used + 1
            /\ pc' = [pc EXCEPT ![p] = "execute"]
            /\ UNCHANGED << resp, exc >>
  /\ UNCHANGED << boot, table, rows, others, op, body, cur, base, stmts,
                  issued, n201 >>

\* AUTO_INCREMENT: the id the table gives its next row.
AutoIncrement(tbl) == Len(tbl) + 1

\* The INSERT runs on the server: the row is committed (autocommit) and the
\* connection learns its id, or the server reports an error.
\* `now` is the server's CURRENT_TIMESTAMP.
ExecuteInsert(p, now) ==
  /\ pc[p] = "execute" /\ op[p] = "create"
  /\ stmts' = [stmts EXCEPT ![p] = @ + 1]
  /\ \E ok \in (IF table THEN BOOLEAN ELSE {FALSE}) :
       IF ok
       THEN LET a == InsertArgs(body[p])
                row == [id |-> AutoIncrement(rows), name |-> a.name,
                        email |-> a.email, phone |-> a.phone,
                        message |-> a.message, created_at |-> now]
            IN  /\ rows' = Append(rows, row)
                /\ cur' = [cur EXCEPT ![p].lastrowid = row.id]
                /\ pc' = [pc EXCEPT ![p] = "finish"]
                /\ UNCHANGED << used, resp, exc >>
       ELSE /\ used' = ReleaseOnError(used)
            /\ OnRaise(p, "DatabaseError")
            /\ UNCHANGED << rows, cur >>
  /\ UNCHANGED << boot, table, others, op, body, base, acq, issued, n201 >>

\* Variant of ContactId: the greatest id of the table, read when the
\* handler resumes.
ContactIdFromTable(p) == Len(rows)

\* contact_id = cursor.lastrowid
ContactId(p) == cur[p].lastrowid

\* create_contact, lines 120-126.
FinishCreate(p) ==
  /\ pc[p] = "finish" /\ op[p] = "create"
  /\ used' = ReleaseOnExit(used)
  /\ resp' = [resp EXCEPT ![p] = CreatedResponse(ContactId(p))]
  /\ pc' = [pc EXCEPT ![p] = "done"]
  /\ issued' = issued \cup {ContactId(p)}
  /\ n201' = n201 + 1
  /\ UNCHANGED << boot, table, rows, others, op, body, cur, base, acq, stmts,
                  exc >>

\* get_contacts, lines 143-144.
AcquireList(p) ==
  /\ pc[p] = "acquire" /\ op[p] = "list"
  /\ CanAcquire
  /\ acq' = [acq EXCEPT ![p] = @ + 1]
  /\ \E ok \in BOOLEAN :
       IF ok
       THEN /\ used' = used + 1
            /\ pc' = [pc EXCEPT ![p] = "execute"]
            /\ UNCHANGED << resp, exc >>
       ELSE /\ used' = used
            /\ OnRaise(p, "DatabaseError")
  /\ UNCHANGED << boot, table, rows, others, op, body, cur, base, stmts,
                  issued, n201 >>

\* Variant of OrderedDesc: ORDER BY created_at ASC.
OrderedAsc(r) ==
  \A i, j \in 1..Len(r) : i < j => r[i].created_at <= r[j].created_at

\* ORDER BY created_at DESC
OrderedDesc(r) ==
  \A i, j \in 1..Len(r) : i < j => r[i].created_at >= r[j].created_at

Perms(n) == { f \in [1..n -> 1..n] : \A i, j \in 1..n : i # j => f[i] # f[j] }

\* SELECT ... FROM contacts ORDER BY created_at DESC: every row once, in an
\* order the ORDER BY allows (rows of the same second come in any order).
SelectContacts(tbl) ==
  IF tbl = <<>> THEN { <<>> }
  ELSE { r \in { [i \in 1..Len(tbl) |-> tbl[f[i]]] : f \in Perms(Len(tbl)) } :
         OrderedDesc(r) }

\* The SELECT runs on the server and the cursor buffers its result.
ExecuteSelect(p) ==
  /\ pc[p] = "execute" /\ op[p] = "list"
  /\ stmts' = [stmts EXCEPT ![p] = @ + 1]
  /\ \E ok \in (IF table THEN BOOLEAN ELSE {FALSE}) :
       IF ok
       THEN /\ \E r \in SelectContacts(rows) :
                 cur' = [cur EXCEPT ![p].fetched = r]
            /\ pc' = [pc EXCEPT ![p] = "finish"]
            /\ UNCHANGED << used, resp, exc >>
       ELSE /\ used' = ReleaseOnError(used)
            /\ OnRaise(p, "DatabaseError")
            /\ cur' = cur
  /\ UNCHANGED << boot, table, rows, others, op, body, base, acq, issued,
                  n201 >>

\* get_contacts, lines 146-151.
FinishList(p) ==
  /\ pc[p] = "finish" /\ op[p] = "list"
  /\ used' = ReleaseOnExit(used)
  /\ resp' = [resp EXCEPT ![p] = ListResponse(cur[p].fetched)]
  /\ pc' = [pc EXCEPT ![p] = "done"]
  /\ UNCHANGED << boot, table, rows, others, op, body, cur, base, acq, stmts,
                  exc, issued, n201 >>

\* A further get_contacts request, of which only the connection is followed.
OtherAcquire ==
  /\ boot = "serving"
  /\ CanAcquire
  /\ others' = others + 1
  /\ UNCHANGED << boot, table, rows, used, hreq >>

OtherRelease ==
  /\ others > 0
  /\ others' = others - 1
  /\ UNCHANGED << boot, table, rows, used, hreq >>

\* --------------------------------------------------------- specifications
Startup == CreatePool \/ TableAcquire \/ TableExecute

Step(p, clock) ==
  \/ ParseValidate(p)
  \/ AcquireCreate(p)
  \/ \E now \in clock : ExecuteInsert(p, now)
  \/ FinishCreate(p)
  \/ AcquireList(p)
  \/ ExecuteSelect(p)
  \/ FinishList(p)

\* Concurrent clients; each insert falls in a later second than the last.
Next ==
  \/ Startup
  \/ \E p \in Procs :
       \/ \E b \in ConcBodies : ArriveCreate(p, b)
       \/ ArriveList(p)
       \/ Step(p, {Len(rows) + 1})

Spec == Init /\ [][Next]_vars

\* One client that sends any body to an empty table and then lists it.
NextInput ==
  \/ Startup
  \/ \E b \in Bodies : rows = <<>> /\ ArriveCreate(1, b)
  \/ ArriveList(1)
  \/ Step(1, Times)

SpecInput == Init /\ [][NextInput]_vars

\* One client that fills the table, the server's clock reading anything,
\* and lists it.
NextOrder ==
  \/ Startup
  \/ ArriveCreate(1, Obj(GoodName, GoodEmail, Absent, GoodMessage))
  \/ ArriveList(1)
  \/ Step(1, Times)

SpecOrder == Init /\ [][NextOrder]_vars

\* One client and enough further requests to exhaust the pool.
NextPool ==
  \/ Startup
  \/ \E b \in ConcBodies : ArriveCreate(1, b)
  \/ ArriveList(1)
  \/ Step(1, {Len(rows) + 1})
  \/ OtherAcquire
  \/ OtherRelease

SpecPool == Init /\ [][NextPool]_vars

\* ================================================================= claims
FieldOrder == <<"name", "email", "message">>

IsAbsent(x) == x.t = "absent"

\* Absent, or a value Python takes for false: null, "", 0, [].
IsEmpty(x) ==
  \/ x.t \in {"absent", "null"}
  \/ x.t \in {"str", "list"} /\ x.v = <<>>
  \/ x.t = "num" /\ x.v = <<"0">>

\* The first of name, email, message that is absent; 0 if there is none.
FirstAbsent(b) ==
  IF \E i \in 1..3 : IsAbsent(b[FieldOrder[i]])
  THEN CHOOSE i \in 1..3 :
         /\ IsAbsent(b[FieldOrder[i]])
         /\ \A j \in 1..(i - 1) : ~IsAbsent(b[FieldOrder[j]])
  ELSE 0

\* The first of name, email, message that is empty; 0 if there is none.
FirstEmpty(b) ==
  IF \E i \in 1..3 : IsEmpty(b[FieldOrder[i]])
  THEN CHOOSE i \in 1..3 :
         /\ IsEmpty(b[FieldOrder[i]])
         /\ \A j \in 1..(i - 1) : ~IsEmpty(b[FieldOrder[j]])
  ELSE 0

RequiredMessage(i) == FieldOrder[i] \o " is required"

Answered(p) == pc[p] = "done"
CreateOf(p) == Answered(p) /\ op[p] = "create"
ListOf(p) == Answered(p) /\ op[p] = "list"

\* C1, as stated: a create-contact request whose body is an object without
\* at least one of the keys name, email, message is answered 400 with
\* "<field> is required", <field> being the first key that is absent.
C1_FirstAbsentNamed ==
  \A p \in Procs :
    (CreateOf(p) /\ body[p].kind = "object" /\ FirstAbsent(body[p]) # 0)
    => /\ resp[p].status = 400
       /\ resp[p].error = RequiredMessage(FirstAbsent(body[p]))

\* C1, amended: such a request is answered 400 with "<field> is required",
\* <field> being the first of name, email, message that is absent or holds
\* a value Python takes for false (null, "", 0, []).
C1_FirstEmptyNamed ==
  \A p \in Procs :
    (CreateOf(p) /\ body[p].kind = "object" /\ FirstAbsent(body[p]) # 0)
    => /\ resp[p].status = 400
       /\ resp[p].error = RequiredMessage(FirstEmpty(body[p]))

\* An empty name before an absent email: the answer names "name".
C1_Witness ==
  \E p \in Procs :
    /\ CreateOf(p)
    /\ body[p].kind = "object"
    /\ body[p].name = JStr(<<>>)
    /\ IsAbsent(body[p].email)
    /\ resp[p].status = 400
    /\ resp[p].error = "name is required"

LacksAtOrDot(e) == e.t = "str" /\ (~Contains("@", e.v) \/ ~Contains(".", e.v))

\* C2, as stated: a create-contact request with the keys name, email and
\* message all present, whose email is a string without "@" or without ".",
\* is answered 400 with the invalid-email message.
C2_PresentInvalidEmail ==
  \A p \in Procs :
    ( /\ CreateOf(p)
      /\ body[p].kind = "object"
      /\ FirstAbsent(body[p]) = 0
      /\ LacksAtOrDot(body[p].email) )
    => /\ resp[p].status = 400
       /\ resp[p].error = "Invalid email format"

\* C2, amended: a create-contact request whose name, email and message are
\* all present and not empty (none is null, "", 0 or []), and whose email is
\* a string without "@" or without ".", is answered 400 with the
\* invalid-email message, also when only one of the two characters lacks.
C2_NonEmptyInvalidEmail ==
  \A p \in Procs :
    ( /\ CreateOf(p)
      /\ body[p].kind = "object"
      /\ FirstEmpty(body[p]) = 0
      /\ LacksAtOrDot(body[p].email) )
    => /\ resp[p].status = 400
       /\ resp[p].error = "Invalid email format"

\* An email with "@" and no ".", rejected as invalid.
C2_Witness ==
  \E p \in Procs :
    /\ CreateOf(p)
    /\ FirstEmpty(body[p]) = 0
    /\ body[p].email = JStr(<<"a", "@", "b">>)
    /\ resp[p].status = 400
    /\ resp[p].error = "Invalid email format"

\* C3: a create-contact request answered 400 has acquired no connection and
\* sent no statement, it is over, and the table holds the rows it held when
\* the request arrived.
C3_RejectedTouchesNothing ==
  \A p \in Procs :
    (op[p] = "create" /\ resp[p].status = 400)
    => /\ Answered(p)
       /\ acq[p] = 0
       /\ stmts[p] = 0
       /\ Len(rows) = base[p]

\* A request rejected for its email, and one rejected for a missing field.
C3_Witness ==
  \E p \in Procs :
    /\ CreateOf(p)
    /\ resp[p].status = 400
    /\ resp[p].error = "Invalid email format"
    /\ acq[p] = 0

Blank == {" ", "\t", "\n"}

\* t is s without the blanks at its two ends.
IsTrimOf(t, s) ==
  /\ t = <<>> \/ (t[1] \notin Blank /\ t[Len(t)] \notin Blank)
  /\ \E i \in 1..(Len(s) + 1), j \in 0..Len(s) :
       /\ t = SubSeq(s, i, j)
       /\ \A k \in 1..Len(s) : (k < i \/ k > j) => s[k] \in Blank

TrimOf(s) ==
  CHOOSE t \in { SubSeq(s, i, j) : i \in 1..(Len(s) + 1), j \in 0..Len(s) } :
    IsTrimOf(t, s)

Capitals == { <<"A", "a">>, <<"B", "b">>, <<"H", "h">>, <<"J", "j">> }

\* t is s with every capital letter replaced by its small letter.
IsLowerOf(t, s) ==
  /\ Len(t) = Len(s)
  /\ \A k \in 1..Len(s) :
       IF \E c \in Capitals : c[1] = s[k]
       THEN <<s[k], t[k]>> \in Capitals
       ELSE t[k] = s[k]

NonEmptyText(x) == x.t = "str" /\ x.v # <<>>

\* name, email and message are non-empty strings and the email has "@" and ".".
ValidCore(b) ==
  /\ b.kind = "object"
  /\ NonEmptyText(b.name) /\ NonEmptyText(b.email) /\ NonEmptyText(b.message)
  /\ Contains("@", b.email.v) /\ Contains(".", b.email.v)

RowsWithId(n) == { i \in 1..Len(rows) : rows[i].id = n }

\* C4: a create-contact request with valid string fields (phone a string or
\* absent) whose INSERT succeeds is answered 201 with a positive id; one row
\* was added, exactly one row has that id, its name and message are the
\* submitted ones trimmed and its email the submitted one trimmed and
\* lower-cased; and a list-contacts answer holds every row that was
\* committed when the list request arrived.
C4_CreatedRowListed ==
  /\ \A p \in Procs :
       ( /\ CreateOf(p)
         /\ ValidCore(body[p])
         /\ body[p].phone.t \in {"str", "absent"}
         /\ exc[p] # "DatabaseError" )
       => /\ resp[p].status = 201
          /\ resp[p].id > 0
          /\ Len(rows) = base[p] + 1
          /\ Cardinality(RowsWithId(resp[p].id)) = 1
          /\ \A i \in RowsWithId(resp[p].id) :
               /\ rows[i].name = TrimOf(body[p].name.v)
               /\ rows[i].message = TrimOf(body[p].message.v)
               /\ IsLowerOf(rows[i].email, TrimOf(body[p].email.v))
  /\ \A p \in Procs :
       (ListOf(p) /\ resp[p].status = 200)
       => \A i \in 1..base[p] :
            \E k \in 1..Len(resp[p].contacts) : resp[p].contacts[k] = rows[i]

\* {name: "Jo", email: " A@B.c ", message: "Hi\n"} was created and a later
\* list-contacts answer shows it with name "Jo" and email "a@b.c".
C4_Witness ==
  \E p \in Procs :
    /\ ListOf(p)
    /\ resp[p].status = 200
    /\ base[p] = 1
    /\ resp[p].count = 1
    /\ resp[p].contacts[1].id = 1
    /\ resp[p].contacts[1].name = <<"J", "o">>
    /\ resp[p].contacts[1].email = <<"a", "@", "b", ".", "c">>
    /\ resp[p].contacts[1].message = <<"H", "i">>

\* C5: with name, email and message valid, the request is accepted whether
\* phone is absent, "" or null (201 unless the INSERT itself fails), and the
\* row's phone is the empty string.
C5_PhoneOptional ==
  \A p \in Procs :
    ( /\ CreateOf(p)
      /\ ValidCore(body[p])
      /\ body[p].phone \in {Absent, JStr(<<>>), JNull}
      /\ exc[p] # "DatabaseError" )
    => /\ resp[p].status = 201
       /\ \A i \in RowsWithId(resp[p].id) : rows[i].phone = <<>>

Clean(t) == t # <<>> /\ t[1] \notin Blank /\ t[Len(t)] \notin Blank

\* C6: every row of the table has a name, an email and a message that are
\* not empty and have no blank at either end.
C6_RowsNonEmpty ==
  \A i \in 1..Len(rows) :
    Clean(rows[i].name) /\ Clean(rows[i].email) /\ Clean(rows[i].message)

\* C7: the ids sent in 201 answers are pairwise distinct, the table holds
\* one row per insert (those answered 201 and those whose answer is still to
\* be sent), and a list-contacts answer counts at least the rows committed
\* when the request arrived and at most those committed now, so that after N
\* creates have been answered it counts exactly N rows more.
C7_DistinctIds ==
  /\ Cardinality(issued) = n201
  /\ \A p, q \in Procs :
       (p # q /\ CreateOf(p) /\ CreateOf(q)
          /\ resp[p].status = 201 /\ resp[q].status = 201)
       => resp[p].id # resp[q].id
  /\ Len(rows) =
       n201 + Cardinality({ p \in Procs : op[p] = "create" /\ pc[p] = "finish" })
  /\ \A p \in Procs :
       (ListOf(p) /\ resp[p].status = 200)
       => /\ resp[p].count = Len(resp[p].contacts)
          /\ base[p] <= resp[p].count
          /\ resp[p].count <= Len(rows)

\* Two inserts interleaved: the second to insert has its 201 (id 2) while
\* the first (id 1) has not been answered yet.
C7_Witness ==
  \E p, q \in Procs :
    /\ p # q
    /\ CreateOf(p) /\ resp[p].status = 201 /\ resp[p].id = 2
    /\ op[q] = "create" /\ pc[q] = "finish" /\ cur[q].lastrowid = 1

InternalError(r) ==
  r.status = 500 /\ r.error = "Internal server error" /\ r.id = 0 /\ r.contacts = <<>>

Text(x) == x.t = "str"

\* C9: no exception leaves a handler; a request that does not fail is
\* answered 200, 201 or 400; a body that is no JSON object, a non-string
\* value that validation lets through, and a database error are each
\* answered 500 {error: "Internal server error"}; and once a request is
\* answered, with whatever status, the next one is accepted.
C9_FailuresAnswered500 ==
  \A p \in Procs :
    /\ pc[p] # "escaped"
    /\ Answered(p) =>
         /\ resp[p].status \in {200, 201, 400, 500}
         /\ resp[p].status = 500 => InternalError(resp[p])
         /\ exc[p] # "none" => InternalError(resp[p])
         /\ (op[p] = "create" /\ body[p].kind # "object") => InternalError(resp[p])
         /\ ( /\ op[p] = "create"
              /\ body[p].kind = "object"
              /\ FirstEmpty(body[p]) = 0
              /\ ~LacksAtOrDot(body[p].email)
              /\ \/ ~Text(body[p].name)
                 \/ ~Text(body[p].email)
                 \/ ~Text(body[p].message)
                 \/ body[p].phone.t \notin {"str", "absent"} )
            => InternalError(resp[p])
         /\ ENABLED ArriveList(p)
         /\ ENABLED ArriveCreate(p, NonObj("array"))

\* A request whose name is a number was answered 500 after it had acquired
\* a connection, and the table is as it was.
C9_Witness ==
  \E p \in Procs :
    /\ CreateOf(p)
    /\ body[p].name = JNum(<<"5">>)
    /\ exc[p] = "AttributeError"
    /\ acq[p] = 1
    /\ InternalError(resp[p])

Holding == { p \in Procs : pc[p] \in {"execute", "finish"} }

\* C10: the connections checked out are exactly those of the operations
\* that are between their acquire and their release (create_table, the
\* handlers, the further list requests), so that none is checked out when
\* no operation is in progress; and never more than maxsize are.
C10_ConnectionsScoped ==
  /\ CheckedOut <= maxsize
  /\ used = Cardinality(Holding) + (IF boot = "table_execute" THEN 1 ELSE 0)
  /\ ( /\ \A p \in Procs : pc[p] \in {"idle", "done", "parse", "acquire"}
       /\ boot # "table_execute"
       /\ others = 0 )
     => CheckedOut = 0

\* The pool is exhausted and a create-contact handler waits in acquire.
C10_Witness ==
  /\ CheckedOut = maxsize
  /\ \E p \in Procs : pc[p] = "acquire" /\ op[p] = "create" /\ acq[p] = 0

====
